---- MODULE Spec2Model ----
(***************************************************************************)
(* Model of celltool's resample_stats command                              *)
(* (src/celltool/command_line/resample_stats.py): main, read_files and     *)
(* format_pval, together with the resampling engine (ks_resample) that     *)
(* main calls.  ks_resample and datafile are not part of the source tree   *)
(* at hand; the engine is modelled from sections 4.1-4.4 of the            *)
(* specification.                                                          *)
(*                                                                         *)
(* Real numbers are exact fractions <<numerator, denominator>>.  A p-value *)
(* is kept as <<count, N>>: count null values reach the observed distance, *)
(* out of a null distribution of size N.                                   *)
(***************************************************************************)
EXTENDS Integers, Sequences, FiniteSets

\* ------------------------------------------------------------------ bounds
\* data files on the command line (datasets + references)
MaxFiles == 3

\* measurements (rows) of one data file
MaxRows == 2

\* measurements (rows) in all the data files of a run together
MaxTotalRows == 4

\* resampling counts 0..MaxN of a whole run
MaxN == 2

\* resampling counts 1..MaxFmtN for format_pval on its own
MaxFmtN == 6

\* the measurements, and the numbers of columns of a data file
Values == {0, 1}

Widths == {1, 2}

\* namebases of the data files; the names are interchangeable, so the first
\* file of a run is taken to be named FirstName
Names == {"a", "b"}

FirstName == "a"

VARIABLES
    args,          \* positional arguments after globbing: <<column, path, ...>>
    reference,     \* the --reference paths after globbing
    n,             \* options.n
    pc,            \* position of main
    err,           \* the exception that ended the run, "" when none
    data_column,   \* main's data_column once converted (0-based index)
    datasets,      \* main's datasets (args[1:])
    names, pops,           \* read_files(datasets, ...)
    ref_names, ref_pops,   \* read_files(reference, ...)
    ncols,         \* read_files' local rows: the number of columns of the rows
                   \* of the DataFile read last; 0 for a file without rows,
                   \* before the first read and once read_files returned
    opened,        \* number of data files opened so far
    calls,         \* number of calls of the resampling engine so far
    mode,          \* which engine entry point was called
    pvals,         \* what the engine returned
    rows,          \* the table main assembles
    out            \* what write_data_file was given, one entry per call

vars == <<args, reference, n, pc, err, data_column, datasets, names, pops,
          ref_names, ref_pops, ncols, opened, calls, mode, pvals, rows, out>>

\* ------------------------------------------------------------ small helpers
Range(s) == {s[i] : i \in DOMAIN s}

Abs(x) == IF x < 0 THEN -x ELSE x

SetMax(S) == CHOOSE x \in S : \A y \in S : y <= x

Min(a, b) == IF a < b THEN a ELSE b

\* a >= b and a < b for fractions with positive denominators
FracGE(a, b) == a[1] * b[2] >= b[1] * a[2]

FracLT(a, b) == a[1] * b[2] < b[1] * a[2]

RECURSIVE Pow10(_)
Pow10(k) == IF k = 0 THEN 1 ELSE 10 * Pow10(k - 1)

RECURSIVE Concat(_)
Concat(ss) == IF ss = <<>> THEN <<>> ELSE Head(ss) \o Concat(Tail(ss))

\* path.path(df).namebase: the file name without directory and extension
namebase(df) == df.base

\* --------------------------------------------------------------- the inputs
\* The i-th file argument lives in its own directory, so two arguments are
\* always different files, while their namebases may coincide.
PathArgs(first, k) ==
    {[i \in 1..k |-> [dir |-> first + i, base |-> f[i]]] : f \in [1..k -> Names]}

\* Numeric data_column arguments: the valid ones and those around them.  (A
\* column given by header name is left to datafile and is not modelled.)
ColumnArgs == (-1)..(SetMax(Widths) + 1)

\* The data files of at most k rows: the rows, all of the same width.
Files(k) ==
    UNION {[1..j -> [1..w -> Values]] : j \in 0..Min(k, MaxRows), w \in Widths}

Width(file) == IF file = <<>> THEN 0 ELSE Len(file[1])

RECURSIVE TotalLen(_)
TotalLen(ss) == IF ss = <<>> THEN 0 ELSE Len(Head(ss)) + TotalLen(Tail(ss))

Init ==
    /\ \E d \in 0..MaxFiles, r \in 0..MaxFiles, c \in ColumnArgs :
          /\ d + r <= MaxFiles
          /\ \E ds \in PathArgs(0, d), rs \in PathArgs(d, r) :
                /\ IF d + r = 0 THEN TRUE
                   ELSE namebase(Head(ds \o rs)) = FirstName
                /\ args = <<c>> \o ds
                /\ reference = rs
    /\ n \in 0..MaxN
    /\ pc = "start"
    /\ err = ""
    /\ data_column = 0
    /\ datasets = <<>>
    /\ names = <<>> /\ pops = <<>>
    /\ ref_names = <<>> /\ ref_pops = <<>>
    /\ ncols = 0
    /\ opened = 0
    /\ calls = 0
    /\ mode = "none"
    /\ pvals = <<>>
    /\ rows = <<>>
    /\ out = <<>>

\* ---------------------------------------------------------------- main 81-98
\* ConfigError with the data column left out of the total
ConfigErrorNoTotal(a, ref) == (Len(a) < 2) \/ (Len(a) + Len(ref) < 2)

\* line 87: the condition under which main raises ValueError
ConfigError(a, ref) == (Len(a) < 2) \/ (Len(a) + Len(ref) < 3)

\* lines 94-96: int(data_column) - 1
ColumnIndex(c) == c - 1

ParseArgs ==
    /\ pc = "start"
    /\ IF ConfigError(args, reference)
       THEN /\ pc' = "error"
            /\ err' = "ValueError"
            /\ UNCHANGED <<data_column, datasets>>
       ELSE /\ pc' = "read_data"
            /\ data_column' = ColumnIndex(args[1])
            /\ datasets' = Tail(args)
            /\ err' = err
    /\ UNCHANGED <<args, reference, n, names, pops, ref_names, ref_pops, ncols,
                   opened, calls, mode, pvals, rows, out>>

\* ------------------------------------------------------- read_files 128-136
\* row[data_column] on a Python list of length len: indices -len..len-1 are
\* valid, a negative index counts from the end, anything else is IndexError.
IndexInRange(len, i) == (-len <= i) /\ (i < len)

PyItem(row, i) == IF i >= 0 THEN row[i + 1] ELSE row[Len(row) + i + 1]

\* line 135: [row[data_column] for row in rows]
ColumnFails(file, i) == \E k \in DOMAIN file : ~IndexInRange(Len(file[k]), i)

ExtractColumn(file, i) == [k \in DOMAIN file |-> PyItem(file[k], i)]

\* One iteration of the loop of read_files(datasets, data_column), line 102.
ReadDataFile ==
    /\ pc = "read_data"
    /\ \E file \in Files(MaxTotalRows - TotalLen(pops) - TotalLen(ref_pops)) :
          /\ opened' = opened + 1
          /\ IF ColumnFails(file, data_column)
             THEN /\ pc' = "error"
                  /\ err' = "IndexError"
                  /\ ncols' = Width(file)
                  /\ UNCHANGED <<names, pops>>
             ELSE /\ names' = Append(names, namebase(datasets[Len(names) + 1]))
                  /\ pops' = Append(pops, ExtractColumn(file, data_column))
                  /\ err' = err
                  /\ ncols' = IF Len(pops') < Len(datasets) THEN Width(file) ELSE 0
                  /\ pc' = IF Len(pops') < Len(datasets) THEN "read_data"
                           ELSE IF Len(reference) > 0 THEN "read_ref"
                           ELSE "resample"
    /\ UNCHANGED <<args, reference, n, data_column, datasets, ref_names,
                   ref_pops, calls, mode, pvals, rows, out>>

\* One iteration of the loop of read_files(reference, data_column), line 105.
ReadRefFile ==
    /\ pc = "read_ref"
    /\ \E file \in Files(MaxTotalRows - TotalLen(pops) - TotalLen(ref_pops)) :
          /\ opened' = opened + 1
          /\ IF ColumnFails(file, data_column)
             THEN /\ pc' = "error"
                  /\ err' = "IndexError"
                  /\ ncols' = Width(file)
                  /\ UNCHANGED <<ref_names, ref_pops>>
             ELSE /\ ref_names' =
                        Append(ref_names, namebase(reference[Len(ref_names) + 1]))
                  /\ ref_pops' = Append(ref_pops, ExtractColumn(file, data_column))
                  /\ err' = err
                  /\ ncols' = IF Len(ref_pops') < Len(reference) THEN Width(file) ELSE 0
                  /\ pc' = IF Len(ref_pops') < Len(reference) THEN "read_ref"
                           ELSE "resample"
    /\ UNCHANGED <<args, reference, n, data_column, datasets, names, pops,
                   calls, mode, pvals, rows, out>>

\* ------------------------------------------- the resampling engine (spec 4)
\* 4.1: the two-sample KS statistic, the largest gap between the empirical
\* distribution functions of A and B over the values present in either.
CountLE(A, x) == Cardinality({i \in DOMAIN A : A[i] <= x})

ks_distance(A, B) ==
    <<SetMax({Abs(CountLE(A, x) * Len(B) - CountLE(B, x) * Len(A)) :
                 x \in Range(A) \cup Range(B)}),
      Len(A) * Len(B)>>

\* 4.2: the replicates a resampling of P with replacement can produce, each of
\* the length of P.  The KS distance does not depend on the order of a
\* sample, so one ordering (nondecreasing) stands for each replicate.
Replicates(P) ==
    {rep \in [1..Len(P) -> Range(P)] :
        \A i \in 1..(Len(P) - 1) : rep[i] <= rep[i + 1]}

\* 4.3 step 2: the distances one trial on P alone can produce
NullDistances(P) == {ks_distance(r1, r2) : r1 \in Replicates(P), r2 \in Replicates(P)}

\* 4.3 step 2: the per-dataset null distributions of k trials.  The estimator
\* only counts, so one ordering of the trials stands for each distribution.
SelfNulls(P, k) ==
    {D \in [1..k -> NullDistances(P)] :
        \A t \in 1..(k - 1) : D[t][1] <= D[t + 1][1]}

\* 4.4: how many values of the null distribution D reach the distance dist
CountReaching(D, dist) == Cardinality({t \in DOMAIN D : FracGE(D[t], dist)})

\* 4.3: the observed distances of an all-pairs run, and of a reference run
\* (each population against the union of the references)
ObservedPairs(P) == [i \in DOMAIN P |-> [j \in DOMAIN P |-> ks_distance(P[i], P[j])]]

ObservedToRef(P, R) == [i \in DOMAIN P |-> ks_distance(P[i], Concat(R))]

\* 4.3 step 3 and 4.4: all-pairs p-values from the observed distances obs
\* and the per-dataset nulls D; the null of a pair is the union of the two
\* datasets' nulls, of size 2k.
SymmetricPvals(obs, D, k) ==
    [i \in DOMAIN obs |-> [j \in DOMAIN obs |->
        <<CountReaching(D[i], obs[i][j]) + CountReaching(D[j], obs[i][j]), 2 * k>>]]

\* 4.3 reference mode, m > 1: the cross-comparison null.  reps[a][t] is the
\* t-th replicate of reference a; every replicate of one reference is
\* compared with every replicate of each other reference.
CrossPairs(m, k) ==
    {q \in (1..m) \X (1..m) \X (1..k) \X (1..k) : q[1] < q[2]}

CrossNull(reps, m, k) ==
    [q \in CrossPairs(m, k) |-> ks_distance(reps[q[1]][q[3]], reps[q[2]][q[4]])]

\* k replicates of every reference of R
RECURSIVE RefReplicates(_, _)
RefReplicates(R, k) ==
    IF R = <<>> THEN {<<>>}
    ELSE {<<first>> \o rest : first \in [1..k -> Replicates(Head(R))],
                              rest \in RefReplicates(Tail(R), k)}

\* one null distribution of k trials for every population of P
RECURSIVE NullChoices(_, _)
NullChoices(P, k) ==
    IF P = <<>> THEN {<<>>}
    ELSE {<<first>> \o rest : first \in SelfNulls(Head(P), k),
                              rest \in NullChoices(Tail(P), k)}

\* 4.4 in reference mode: one reference (null D of k trials), several
\* references (the cross-comparison null)
SingleRefPvals(obs, D, k) ==
    [i \in DOMAIN obs |-> <<CountReaching(D, obs[i]), k>>]

MultiRefPvals(obs, null) ==
    [i \in DOMAIN obs |->
        <<Cardinality({q \in DOMAIN null : FracGE(null[q], obs[i])}),
          Cardinality(DOMAIN null)>>]

HasEmpty(P) == \E i \in DOMAIN P : Len(P[i]) = 0

\* ReferenceMode taken only with several references
ReferenceModeSeveral(refs) == Len(refs) > 1

\* line 109: reference mode or all-pairs mode
ReferenceMode(refs) == Len(refs) > 0

\* line 119: pvals = ks_resample.symmetric_comparison(pops, options.n).  The
\* engine requires n >= 1 and non-empty populations (sections 6 and 7 of the
\* specification); the random resampling is the choice of D.
SymmetricComparison ==
    /\ pc = "resample"
    /\ ~ReferenceMode(ref_pops)
    /\ calls' = calls + 1
    /\ mode' = "all-pairs"
    /\ ncols' = 0
    /\ IF n < 1
       THEN pc' = "error" /\ err' = "ConfigurationError" /\ pvals' = pvals
       ELSE IF HasEmpty(pops)
       THEN pc' = "error" /\ err' = "EmptySampleError" /\ pvals' = pvals
       ELSE /\ LET obs == ObservedPairs(pops)
               IN  \E D \in NullChoices(pops, n) :
                      pvals' = SymmetricPvals(obs, D, n)
            /\ pc' = "format"
            /\ err' = err
    /\ UNCHANGED <<args, reference, n, data_column, datasets, names, pops,
                   ref_names, ref_pops, opened, rows, out>>

\* line 110: pvals = ks_resample.compare_to_ref(pops, ref_pops, options.n),
\* with the same preconditions; the random resampling is the choice of D
\* (one reference) or of the replicates reps (several references).
CompareToRef ==
    /\ pc = "resample"
    /\ ReferenceMode(ref_pops)
    /\ calls' = calls + 1
    /\ mode' = "reference"
    /\ ncols' = 0
    /\ IF n < 1
       THEN pc' = "error" /\ err' = "ConfigurationError" /\ pvals' = pvals
       ELSE IF HasEmpty(pops) \/ HasEmpty(ref_pops)
       THEN pc' = "error" /\ err' = "EmptySampleError" /\ pvals' = pvals
       ELSE /\ LET obs == ObservedToRef(pops, ref_pops)
               IN  IF Len(ref_pops) = 1
                   THEN \E D \in SelfNulls(ref_pops[1], n) :
                           pvals' = SingleRefPvals(obs, D, n)
                   ELSE \E reps \in RefReplicates(ref_pops, n) :
                           pvals' = MultiRefPvals(obs, CrossNull(reps, Len(ref_pops), n))
            /\ pc' = "format"
            /\ err' = err
    /\ UNCHANGED <<args, reference, n, data_column, datasets, names, pops,
                   ref_names, ref_pops, opened, rows, out>>

\* ------------------------------------------------------ format_pval 138-144
\* The cells of the table: None, a name, a header, a rendered p-value.
NoneCell == [kind |-> "none"]

NameCell(name) == [kind |-> "name", text |-> name]

\* line 139: int(numpy.ceil(numpy.log10(k))), the least e with 10^e >= k
Precision(k) ==
    CHOOSE e \in 0..k : Pow10(e) >= k /\ \A f \in 0..(e - 1) : Pow10(f) < k

\* '%.*f': num/den rounded to an integer, an exact tie going to the even one
RoundHalfEven(num, den) ==
    LET q == num \div den
        twice == 2 * (num % den)
    IN  IF twice < den THEN q
        ELSE IF twice > den THEN q + 1
        ELSE IF q % 2 = 0 THEN q ELSE q + 1

\* format_pval with p <= smallest in place of p < smallest
format_pval_le(p, k) ==
    IF k < 1 THEN [kind |-> "raise"]
    ELSE LET precision == Precision(k)
             smallest == <<1, k>>
         IN  IF ~FracLT(smallest, p)
             THEN [kind |-> "pval", marker |-> TRUE, precision |-> precision,
                   digits |-> RoundHalfEven(smallest[1] * Pow10(precision), smallest[2])]
             ELSE [kind |-> "pval", marker |-> FALSE, precision |-> precision,
                   digits |-> RoundHalfEven(p[1] * Pow10(precision), p[2])]

\* A rendered cell: digits is the printed number times 10^precision, marker
\* is the leading '<'.  For k < 1 line 139 raises (log10 is -inf or nan).
format_pval(p, k) ==
    IF k < 1 THEN [kind |-> "raise"]
    ELSE LET precision == Precision(k)
             smallest == <<1, k>>
         IN  IF FracLT(p, smallest)
             THEN [kind |-> "pval", marker |-> TRUE, precision |-> precision,
                   digits |-> RoundHalfEven(smallest[1] * Pow10(precision), smallest[2])]
             ELSE [kind |-> "pval", marker |-> FALSE, precision |-> precision,
                   digits |-> RoundHalfEven(p[1] * Pow10(precision), p[2])]

\* ------------------------------------------------------------- main 111-125

\* lines 111-115: 'difference from %s' % ref_name; with several references
\* ref_name is 'reference (' + ', '.join(ref_names) + ')'
RefHeaderCell(rnames) == [kind |-> "difference from", refs |-> rnames]

\* lines 115-117
RefRows(nms, rnames, ps, k) ==
    <<<<NoneCell, RefHeaderCell(rnames)>>>> \o
    [i \in 1..Min(Len(nms), Len(ps)) |-> <<NameCell(nms[i]), format_pval(ps[i], k)>>]

\* MatrixRow emptying the cells of the columns named like the row
MatrixRowBlankByName(i, nms, p_row, k) ==
    [j \in 1..(Len(p_row) + 1) |->
        IF j = 1 THEN NameCell(nms[i])
        ELSE IF nms[j - 1] = nms[i] THEN NoneCell
        ELSE format_pval(p_row[j - 1], k)]

\* lines 122-123: the row of the i-th dataset (i counted from 1), its
\* self-comparison cell emptied
MatrixRow(i, nms, p_row, k) ==
    [j \in 1..(Len(p_row) + 1) |->
        IF j = i + 1 THEN NoneCell
        ELSE IF j = 1 THEN NameCell(nms[i])
        ELSE format_pval(p_row[j - 1], k)]

\* lines 120-123
MatrixRows(nms, ps, k) ==
    <<<<NoneCell>> \o [j \in DOMAIN nms |-> NameCell(nms[j])]>> \o
    [i \in 1..Min(Len(nms), Len(ps)) |-> MatrixRow(i, nms, ps[i], k)]

Raises(table) ==
    \E i \in DOMAIN table : \E j \in DOMAIN table[i] : table[i][j].kind = "raise"

BuildRows ==
    /\ pc = "format"
    /\ LET table == IF mode = "reference"
                    THEN RefRows(names, ref_names, pvals, n)
                    ELSE MatrixRows(names, pvals, n)
       IN  IF Raises(table)
           THEN pc' = "error" /\ err' = "OverflowError" /\ rows' = rows
           ELSE pc' = "write" /\ err' = err /\ rows' = table
    /\ UNCHANGED <<args, reference, n, data_column, datasets, names, pops,
                   ref_names, ref_pops, ncols, opened, calls, mode, pvals, out>>

\* WriteOutput writing the file once for the header and once for the table
WriteOutputTwice ==
    /\ pc = "write"
    /\ out' = out \o <<SubSeq(rows, 1, 1), rows>>
    /\ pc' = "done"
    /\ UNCHANGED <<args, reference, n, err, data_column, datasets, names, pops,
                   ref_names, ref_pops, ncols, opened, calls, mode, pvals, rows>>

\* line 125: datafile.write_data_file(rows, options.output_file)
WriteOutput ==
    /\ pc = "write"
    /\ out' = Append(out, rows)
    /\ pc' = "done"
    /\ UNCHANGED <<args, reference, n, err, data_column, datasets, names, pops,
                   ref_names, ref_pops, ncols, opened, calls, mode, pvals, rows>>

Next ==
    \/ ParseArgs
    \/ ReadDataFile
    \/ ReadRefFile
    \/ SymmetricComparison
    \/ CompareToRef
    \/ BuildRows
    \/ WriteOutput

Spec == Init /\ [][Next]_vars

\* ---------------------------------------------- format_pval on its own
\* The null distribution sizes of section 4.3 for k trials: k (one
\* reference), 2k (the pooled null of a pair), k*k (two references).
NullSizes(k) == {k, 2 * k, k * k}

\* Two p-values of one null distribution, as the estimator of 4.4 returns them.
InitFmt ==
    /\ n \in 1..MaxFmtN
    /\ \E size \in NullSizes(n) : \E c1 \in 0..size, c2 \in 0..size :
          pvals = <<<<c1, size>>, <<c2, size>>>>
    /\ pc = "format_pval"
    /\ args = <<>> /\ reference = <<>>
    /\ err = ""
    /\ data_column = 0
    /\ datasets = <<>>
    /\ names = <<>> /\ pops = <<>>
    /\ ref_names = <<>> /\ ref_pops = <<>>
    /\ ncols = 0
    /\ opened = 0
    /\ calls = 0
    /\ mode = "none"
    /\ rows = <<>>
    /\ out = <<>>

FormatCells ==
    /\ pc = "format_pval"
    /\ rows' = <<[i \in DOMAIN pvals |-> format_pval(pvals[i], n)]>>
    /\ pc' = "formatted"
    /\ UNCHANGED <<args, reference, n, err, data_column, datasets, names, pops,
                   ref_names, ref_pops, ncols, opened, calls, mode, pvals, out>>

NextFmt == FormatCells

SpecFmt == InitFmt /\ [][NextFmt]_vars

\* ================================================================== claims
NumData == Len(args) - 1

NumRef == Len(reference)

Built == pc \in {"write", "done"}

\* The cell of the table that renders the p-value of dataset i (against
\* dataset j in all-pairs mode), and the p-value it renders.
PvalCell(i, j) == IF mode = "reference" THEN rows[i + 1][2] ELSE rows[i + 1][j + 1]

PvalOf(i, j) == IF mode = "reference" THEN pvals[i] ELSE pvals[i][j]

\* The comparisons of the table: (i, j) with i # j in all-pairs mode, (i, 1)
\* in reference mode.
Comparisons ==
    IF mode = "reference" THEN (1..NumData) \X {1}
    ELSE {q \in (1..NumData) \X (1..NumData) : q[1] # q[2]}

\* C1: main raises the configuration error exactly when d + r < 2 or d = 0
\* (d datasets, r references), and when it does no data file has been
\* opened, the engine has not been called and nothing has been written.
ConfigErrorExactly ==
    /\ (pc # "start") =>
          ((err = "ValueError") <=> (NumData + NumRef < 2 \/ NumData = 0))
    /\ (err = "ValueError") => (opened = 0 /\ calls = 0 /\ out = <<>>)

\* a run with references only is refused
ConfigErrorWitness ==
    pc = "error" /\ err = "ValueError" /\ NumData = 0 /\ NumRef >= 2

\* C2: a resampling count below 1 is rejected before any computation: no
\* data file is opened, the engine is not called, nothing is written.
BadCountRejectedFirst ==
    (n < 1) => (opened = 0 /\ calls = 0 /\ out = <<>>)

\* every cell of the assembled table is a blank, a name, a header or a
\* rendered p-value, and every comparison has its rendered p-value
TableComplete ==
    /\ Len(rows) = NumData + 1
    /\ \A i \in DOMAIN rows : \A j \in DOMAIN rows[i] :
          rows[i][j].kind \in {"none", "name", "difference from", "pval"}
    /\ \A q \in Comparisons : PvalCell(q[1], q[2]).kind = "pval"

\* C3: the output file is written at most once, only after every dataset
\* has been loaded and every p-value computed and formatted; a run that
\* fails never writes it.
NoPartialTable ==
    /\ Len(out) <= 1
    /\ (out # <<>>) =>
          /\ pc = "done" /\ err = ""
          /\ Len(pops) = NumData /\ Len(ref_pops) = NumRef
          /\ opened = NumData + NumRef
          /\ calls = 1
          /\ out[1] = rows
          /\ TableComplete
    /\ (pc = "error") => (out = <<>>)

\* a complete 3 x 3 table has been written
NoPartialTableWitness ==
    pc = "done" /\ Len(out) = 1 /\ mode = "all-pairs" /\ NumData = 3

\* C4: reference mode is used exactly when there is a reference, all-pairs
\* mode exactly when there is none; the reference table is a header row and
\* one <<name, p-value>> row per dataset in input order, none for a
\* reference; the all-pairs table is a d x d matrix whose row and column
\* headers are the dataset names in input order.
ModeAndShape ==
    /\ (mode # "none") =>
          /\ (mode = "reference") <=> (NumRef >= 1)
          /\ (mode = "all-pairs") <=> (NumRef = 0)
    /\ (Built /\ mode = "reference") =>
          /\ Len(rows) = NumData + 1
          /\ Len(rows[1]) = 2
          /\ rows[1][2].kind = "difference from"
          /\ \A i \in 1..NumData :
                /\ Len(rows[i + 1]) = 2
                /\ rows[i + 1][1] = NameCell(namebase(args[i + 1]))
                /\ rows[i + 1][2].kind = "pval"
    /\ (Built /\ mode = "all-pairs") =>
          /\ Len(rows) = NumData + 1
          /\ \A i \in 1..(NumData + 1) : Len(rows[i]) = NumData + 1
          /\ \A i \in 1..NumData :
                /\ rows[1][i + 1] = NameCell(namebase(args[i + 1]))
                /\ rows[i + 1][1] = NameCell(namebase(args[i + 1]))

\* a reference table of two differently named datasets has been written
ModeAndShapeWitness ==
    /\ pc = "done" /\ mode = "reference" /\ NumData = 2
    /\ namebase(args[2]) # namebase(args[3])

\* C5: in all-pairs mode the cell of row i and column j is blank exactly
\* when i = j, also when two datasets share a name; every other cell is a
\* rendered p-value or the below-resolution marker.
DiagonalBlankExactly ==
    (Built /\ mode = "all-pairs") =>
        \A i \in 1..NumData : \A j \in 1..NumData :
            /\ (rows[i + 1][j + 1] = NoneCell) <=> (i = j)
            /\ (i # j) => rows[i + 1][j + 1].kind = "pval"

\* a matrix of datasets that share a name has been written
DiagonalBlankWitness ==
    /\ pc = "done" /\ mode = "all-pairs" /\ NumData = 3
    /\ namebase(args[2]) = namebase(args[3])

\* C6: a cell is the "< 1/n" marker exactly when no value of the null
\* distribution reaches the observed distance; when at least one does, the
\* p-value lies in [1/n, 1] and is rendered as a number.
MarkerExactlyWhenNoneReach ==
    Built =>
        \A q \in Comparisons :
            LET p == PvalOf(q[1], q[2])
                cell == PvalCell(q[1], q[2])
            IN  /\ cell.marker <=> (p[1] = 0)
                /\ (p[1] >= 1) => (FracGE(p, <<1, n>>) /\ FracGE(<<1, 1>>, p))

\* C7: every p-value the engine returns for resampling count n is a multiple
\* of 1/n, or the below-resolution sentinel (no null value reached the
\* observed distance).
PvalueMultipleOfResolution ==
    (pvals # <<>> /\ mode # "none") =>
        \A q \in Comparisons :
            LET p == PvalOf(q[1], q[2])
            IN  p[1] = 0 \/ (p[1] * n) % p[2] = 0

\* C8: two identical non-empty populations compared in all-pairs mode have
\* observed distance 0 and p-value exactly 1 whatever the resampling drew,
\* and the cell is the number 1, never the marker.
IdenticalPopulationsGiveOne ==
    (mode = "all-pairs" /\ pc \in {"format", "write", "done"}) =>
        \A i \in 1..NumData : \A j \in 1..NumData :
            (i # j /\ pops[i] = pops[j]) =>
                /\ ks_distance(pops[i], pops[j])[1] = 0
                /\ pvals[i][j][1] = pvals[i][j][2]
                /\ Built =>
                      /\ ~rows[i + 1][j + 1].marker
                      /\ rows[i + 1][j + 1].digits =
                            Pow10(rows[i + 1][j + 1].precision)

\* two identical populations of two different values have been compared
IdenticalPopulationsWitness ==
    /\ pc = "done" /\ mode = "all-pairs"
    /\ pops[1] = pops[2] /\ Cardinality(Range(pops[1])) = 2

\* C9: a numeric column argument c outside 1..w, for a file whose rows have
\* w columns, makes loading fail.
ColumnOutsideFileFails ==
    (ncols > 0 /\ args[1] \notin 1..ncols) => (pc = "error")

\* C10: two distinct p-values of one null distribution that are both
\* rendered as numbers are rendered differently, and the bound the marker
\* prints is 1/n rounded to the precision.
DistinctPvaluesRenderDistinct ==
    (pc = "formatted") =>
        LET c1 == rows[1][1]
            c2 == rows[1][2]
        IN  /\ (~c1.marker /\ ~c2.marker /\ pvals[1] # pvals[2]) => (c1 # c2)
            /\ c1.marker => 2 * Abs(c1.digits * n - Pow10(c1.precision)) <= n
====
